---- MODULE Spec2Model ----
(***************************************************************************)
(* Model of src/sparse-clone.ts: the docs sync script.  Each invocation of *)
(* the script is a process p running sparseCloneDocs() followed by the     *)
(* .then/.catch handlers of the entry point.  The file system (target     *)
(* directory ./content/docs, its parent ./content, the temporary clone     *)
(* directories under os.tmpdir()) and the wall clock are shared.           *)
(***************************************************************************)
EXTENDS Integers, Sequences, FiniteSets, TLC

\* Number of invocations of the script in one behaviour.
NumRuns == 2
\* Largest value Date.now() takes in one behaviour.
MaxClock == 2

Procs == 1..NumRuns
Stamps == 1..MaxClock

VARIABLES
    now,        \* the latest value Date.now() returned (0: not read yet)
    remote,     \* tree of the default branch at REPO_URL (a set of files)
    target,     \* ./content/docs
    content,    \* whether ./content exists
    tmp,        \* tmp[t]: join(tmpdir(), `intern3-docs-clone-${t}`)
    pc,         \* position of each invocation
    tempDir,    \* the tempDir constant of each invocation (0 before it starts)
    thrown,     \* the error in flight to a catch clause
    out,        \* console.log lines written (tags)
    err,        \* console.error lines written (tags)
    exitCode,   \* process exit status (meaningful once pc = "exited")
    trace,      \* file-system and child-process calls made: outcome and position
    seen        \* the file system as each invocation found it and left it

vars == <<now, remote, target, content, tmp, pc, tempDir, thrown, out, err, exitCode, trace, seen>>

-----------------------------------------------------------------------------
\* Files and directory trees

F(p, d) == [path |-> p, data |-> d]

\* A remote with a docs folder, files at the root and another folder.
RemoteWithDocs ==
    { F(<<"docs", "guide.md">>, "guide"), F(<<"docs", "sub", "page.md">>, "page"),
      F(<<"README.md">>, "readme"), F(<<"src", "index.ts">>, "index") }

\* A remote without a docs folder.
RemoteNoDocs == { F(<<"README.md">>, "readme"), F(<<"src", "index.ts">>, "index") }

Remotes == { RemoteWithDocs, RemoteNoDocs }

AbsentDir == [exists |-> FALSE, files |-> {}]

\* States ./content/docs can have before an invocation: absent, empty, unrelated
\* content, or a stale version of a file the remote also has.
PriorTargets ==
    { AbsentDir,
      [exists |-> TRUE, files |-> {}],
      [exists |-> TRUE, files |-> { F(<<"old.md">>, "stale") }],
      [exists |-> TRUE, files |-> { F(<<"guide.md">>, "stale"), F(<<"old.md">>, "stale") }] }

\* A temporary clone directory: its files and the sparse-checkout settings held
\* in its .git directory.
AbsentTmp == [exists |-> FALSE, files |-> {}, sparseCheckout |-> FALSE, cone |-> FALSE, rules |-> {}]

GitHead == F(<<".git", "HEAD">>, "ref")

IsRepo(d) == d.exists /\ GitHead \in d.files

\* existsSync(join(dir, name)) for a directory name: git tracks no empty directory
HasSubdir(d, name) == d.exists /\ \E f \in d.files : Len(f.path) > 1 /\ Head(f.path) = name

\* The files below dir/name, with paths relative to it
SubTree(files, name) ==
    { F(Tail(f.path), f.data) : f \in { g \in files : Len(g.path) > 1 /\ Head(g.path) = name } }

\* cpSync(..., {recursive: true}) into a directory: existing files of the same
\* path are overwritten, others are kept
Overlay(old, new) == new \cup { f \in old : \A g \in new : g.path # f.path }

\* What git checkout materializes from tree under the sparse-checkout settings of d
\* (cone mode always includes the files of the root directory)
Materialize(tree, d) ==
    IF d.sparseCheckout
    THEN { f \in tree : \/ Len(f.path) > 1 /\ Head(f.path) \in d.rules
                        \/ Len(f.path) = 1 /\ d.cone }
    ELSE tree

\* find . -name '.*' -prune -o -type f -print
FindVisible(files) == { f \in files : Head(f.path) # ".git" }

\* checkedOut.trim().split("\n").length: an empty listing still counts one line
LineCount(files) == IF files = {} THEN 1 ELSE Cardinality(files)

\* The file-system and child-process calls of sparseCloneDocs
Calls ==
    {"rmTarget", "clone", "config", "sparseInit", "sparseSet", "checkout",
     "listCheckedOut", "checkDocs", "mkdir", "cp", "listTarget", "cleanup"}

NotCalled == [outcome |-> "none", at |-> 0]

-----------------------------------------------------------------------------
Init ==
    /\ now = 0
    /\ remote \in Remotes
    /\ target \in PriorTargets
    /\ content \in BOOLEAN
    /\ target.exists => content
    /\ tmp = [t \in Stamps |-> AbsentTmp]
    /\ pc = [p \in Procs |-> "idle"]
    /\ tempDir = [p \in Procs |-> 0]
    /\ thrown = [p \in Procs |-> "none"]
    /\ out = [p \in Procs |-> <<>>]
    /\ err = [p \in Procs |-> <<>>]
    /\ exitCode = [p \in Procs |-> 0]
    /\ trace = [p \in Procs |-> [c \in Calls |-> NotCalled]]
    /\ seen = [p \in Procs |-> [before |-> AbsentDir, tempExisted |-> FALSE,
                                 after |-> AbsentDir, temps |-> {}]]

-----------------------------------------------------------------------------
\* Helpers for one step of invocation p

Log(p, lines) == out' = [out EXCEPT ![p] = @ \o lines]

LogError(p, line) == err' = [err EXCEPT ![p] = Append(@, line)]

\* How many calls invocation p has made
Made(p) == Cardinality({ c \in Calls : trace[p][c].outcome # "none" })

\* Invocation p makes the call, with that outcome
Did(p, call, outcome) ==
    trace' = [trace EXCEPT ![p][call] = [outcome |-> outcome, at |-> Made(p) + 1]]

Goto(p, label) == pc' = [pc EXCEPT ![p] = label]

\* An exception raised inside the try block: control moves to the catch clause
Throw(p, e) ==
    /\ pc' = [pc EXCEPT ![p] = "catch"]
    /\ thrown' = [thrown EXCEPT ![p] = e]

Running(p) == pc[p] \notin {"idle", "exited"}

\* The process of invocation p ends: what it leaves on disk
Leave(p) ==
    seen' = [seen EXCEPT ![p].after = target,
                         ![p].temps = { t \in Stamps : tmp[t].exists }]

-----------------------------------------------------------------------------
\* sparseCloneDocs, one action per file-system or child-process call

\* Lines 11-14: the temporary directory path is derived from Date.now(), a
\* millisecond clock that may not have advanced since it was last read.  Only
\* whether two readings are equal matters, so a reading is the previous one or
\* the value after it.  Invocations are numbered in the order they start.
Start(p) ==
    /\ pc[p] = "idle"
    /\ \A q \in Procs : q < p => pc[q] # "idle"
    /\ \E ms \in Stamps :
          /\ ms \in {now, now + 1}
          /\ now' = ms
          /\ tempDir' = [tempDir EXCEPT ![p] = ms]
          /\ seen' = [seen EXCEPT ![p].before = target, ![p].tempExisted = tmp[ms].exists]
    /\ Log(p, << <<"Starting optimized sparse clone">> >>)
    /\ Goto(p, "rmTarget")
    /\ UNCHANGED <<remote, target, content, tmp, thrown, err, exitCode, trace>>

\* What a recursive removal that fails can leave of a directory: the model keeps
\* the two extremes, nothing removed and every file removed
Leftovers(files) == {files, {}}

\* RmTarget without the removal: the existing directory is kept
RmTarget_KeepsTarget(p) ==
    /\ pc[p] = "rmTarget"
    /\ IF target.exists
       THEN /\ Did(p, "rmTarget", "ok")
            /\ Log(p, << <<"Removing existing docs directory">>,
                         <<"Creating optimized sparse clone in", tempDir[p]>> >>)
       ELSE /\ Log(p, << <<"Creating optimized sparse clone in", tempDir[p]>> >>)
            /\ UNCHANGED trace
    /\ Goto(p, "clone")
    /\ UNCHANGED <<now, remote, target, content, tmp, tempDir, thrown, err, exitCode, seen>>

\* Lines 17-22: remove ./content/docs if it exists
RmTarget(p) ==
    /\ pc[p] = "rmTarget"
    /\ \/ /\ ~target.exists
          /\ Log(p, << <<"Creating optimized sparse clone in", tempDir[p]>> >>)
          /\ Goto(p, "clone")
          /\ UNCHANGED <<target, thrown, trace>>
       \/ /\ target.exists
          /\ target' = AbsentDir
          /\ Did(p, "rmTarget", "ok")
          /\ Log(p, << <<"Removing existing docs directory">>,
                       <<"Creating optimized sparse clone in", tempDir[p]>> >>)
          /\ Goto(p, "clone")
          /\ UNCHANGED thrown
       \/ /\ target.exists
          /\ \E left \in Leftovers(target.files) :
                target' = [exists |-> TRUE, files |-> left]
          /\ Did(p, "rmTarget", "fail")
          /\ Log(p, << <<"Removing existing docs directory">> >>)
          /\ Throw(p, "rmSync")
    /\ UNCHANGED <<now, remote, content, tmp, tempDir, err, exitCode, seen>>

\* The repository git clone --no-checkout leaves in an absent or empty directory
FreshClone == [exists |-> TRUE, files |-> {GitHead}, sparseCheckout |-> FALSE,
               cone |-> FALSE, rules |-> {}]

\* Clone with its failure ignored: the run goes on to the next command
Clone_ContinuesOnFailure(p) ==
    /\ pc[p] = "clone"
    /\ LET t == tempDir[p]
           free == ~tmp[t].exists \/ tmp[t].files = {}
       IN \/ /\ free
             /\ tmp' = [tmp EXCEPT ![t] = FreshClone]
             /\ Did(p, "clone", "ok")
          \/ /\ UNCHANGED tmp
             /\ Did(p, "clone", "fail")
    /\ Goto(p, "config")
    /\ UNCHANGED <<now, remote, target, content, tempDir, thrown, out, err, exitCode, seen>>

\* Lines 28-33: git clone --no-checkout ... "${tempDir}".  git refuses a
\* destination that exists and is not empty; a clone that fails has either
\* removed what it created or (killed) left it behind.
Clone(p) ==
    /\ pc[p] = "clone"
    /\ LET t == tempDir[p]
           free == ~tmp[t].exists \/ tmp[t].files = {}
       IN \/ /\ free
             /\ tmp' = [tmp EXCEPT ![t] = FreshClone]
             /\ Did(p, "clone", "ok")
             /\ Goto(p, "config")
             /\ UNCHANGED thrown
          \/ /\ \/ UNCHANGED tmp
                \/ free /\ tmp' = [tmp EXCEPT ![t] = FreshClone]
             /\ Did(p, "clone", "fail")
             /\ Throw(p, "execSync")
    /\ UNCHANGED <<now, remote, target, content, tempDir, out, err, exitCode, seen>>

\* A git command run with cwd: tempDir that only changes the settings of the
\* repository (changed is the directory with the new settings): it succeeds only
\* in a repository, and may fail anywhere.
GitSetting(p, call, changed, next) ==
    /\ LET t == tempDir[p]
       IN \/ /\ IsRepo(tmp[t])
             /\ tmp' = [tmp EXCEPT ![t] = changed]
             /\ Did(p, call, "ok")
             /\ Goto(p, next)
             /\ UNCHANGED thrown
          \/ /\ Did(p, call, "fail")
             /\ Throw(p, "execSync")
             /\ UNCHANGED tmp
    /\ UNCHANGED <<now, remote, target, content, tempDir, out, err, exitCode, seen>>

\* Lines 36-39: git config core.sparseCheckout true
Config(p) ==
    /\ pc[p] = "config"
    /\ GitSetting(p, "config",
                  [tmp[tempDir[p]] EXCEPT !.sparseCheckout = TRUE], "sparseInit")

\* Lines 42-45: git sparse-checkout init --cone
SparseInit(p) ==
    /\ pc[p] = "sparseInit"
    /\ GitSetting(p, "sparseInit",
                  [tmp[tempDir[p]] EXCEPT !.sparseCheckout = TRUE, !.cone = TRUE],
                  "sparseSet")

\* Lines 48-51: git sparse-checkout set docs
SparseSet(p) ==
    /\ pc[p] = "sparseSet"
    /\ GitSetting(p, "sparseSet",
                  [tmp[tempDir[p]] EXCEPT !.sparseCheckout = TRUE, !.rules = {"docs"}],
                  "checkout")

\* Lines 54-58: git checkout (the blobs come from the remote: --filter=blob:none);
\* a checkout that fails has written nothing or (failing at its end) everything
Checkout(p) ==
    /\ pc[p] = "checkout"
    /\ LET t == tempDir[p]
           d == tmp[t]
       IN \/ /\ IsRepo(d)
             /\ tmp' = [tmp EXCEPT ![t].files = @ \cup Materialize(remote, d)]
             /\ Did(p, "checkout", "ok")
             /\ Goto(p, "listCheckedOut")
             /\ UNCHANGED thrown
          \/ /\ \/ UNCHANGED tmp
                \/ /\ IsRepo(d)
                   /\ tmp' = [tmp EXCEPT ![t].files = @ \cup Materialize(remote, d)]
             /\ Did(p, "checkout", "fail")
             /\ Throw(p, "execSync")
    /\ Log(p, << <<"Checking out only docs folder">> >>)
    /\ UNCHANGED <<now, remote, target, content, tempDir, err, exitCode, seen>>

\* ListCheckedOut without its own try/catch: a failing listing aborts the run
ListCheckedOut_Escalates(p) ==
    /\ pc[p] = "listCheckedOut"
    /\ LET d == tmp[tempDir[p]]
       IN \/ /\ d.exists
             /\ Did(p, "listCheckedOut", "ok")
             /\ Log(p, << <<"Verifying sparse checkout contents">>,
                          <<"Files checked out", LineCount(FindVisible(d.files))>>,
                          <<"Contents", FindVisible(d.files)>> >>)
             /\ Goto(p, "checkDocs")
             /\ UNCHANGED thrown
          \/ /\ Did(p, "listCheckedOut", "fail")
             /\ Log(p, << <<"Verifying sparse checkout contents">> >>)
             /\ Throw(p, "execSync")
    /\ UNCHANGED <<now, remote, target, content, tmp, tempDir, err, exitCode, seen>>

\* Lines 61-78: list what was checked out; a failure is caught on the spot
ListCheckedOut(p) ==
    /\ pc[p] = "listCheckedOut"
    /\ LET d == tmp[tempDir[p]]
       IN \/ /\ d.exists
             /\ Did(p, "listCheckedOut", "ok")
             /\ Log(p, << <<"Verifying sparse checkout contents">>,
                          <<"Files checked out", LineCount(FindVisible(d.files))>>,
                          <<"Contents", FindVisible(d.files)>> >>)
          \/ /\ Did(p, "listCheckedOut", "fail")
             /\ Log(p, << <<"Verifying sparse checkout contents">>,
                          <<"Could not list checked out files">> >>)
    /\ Goto(p, "checkDocs")
    /\ UNCHANGED <<now, remote, target, content, tmp, tempDir, thrown, err, exitCode, seen>>

\* CheckDocs without the else branch: the copy is attempted in any case
CheckDocs_NoThrow(p) ==
    /\ pc[p] = "checkDocs"
    /\ Did(p, "checkDocs", IF HasSubdir(tmp[tempDir[p]], "docs") THEN "ok" ELSE "fail")
    /\ Log(p, << <<"Copying docs folder to target location">> >>)
    /\ Goto(p, "mkdir")
    /\ UNCHANGED <<now, remote, target, content, tmp, tempDir, thrown, err, exitCode, seen>>

\* Lines 81-82 and 104-108: is there a docs folder in the clone?
CheckDocs(p) ==
    /\ pc[p] = "checkDocs"
    /\ IF HasSubdir(tmp[tempDir[p]], "docs")
       THEN /\ Did(p, "checkDocs", "ok")
            /\ Log(p, << <<"Copying docs folder to target location">> >>)
            /\ Goto(p, "mkdir")
            /\ UNCHANGED thrown
       ELSE /\ Did(p, "checkDocs", "fail")
            /\ Throw(p, "Docs folder not found in cloned repository")
            /\ UNCHANGED out
    /\ UNCHANGED <<now, remote, target, content, tmp, tempDir, err, exitCode, seen>>

\* Line 86: mkdirSync("./content", { recursive: true })
Mkdir(p) ==
    /\ pc[p] = "mkdir"
    /\ \/ /\ content' = TRUE
          /\ Did(p, "mkdir", "ok")
          /\ Goto(p, "cp")
          /\ UNCHANGED thrown
       \/ /\ ~content
          /\ Did(p, "mkdir", "fail")
          /\ Throw(p, "mkdirSync")
          /\ UNCHANGED content
    /\ UNCHANGED <<now, remote, target, tmp, tempDir, out, err, exitCode, seen>>

\* CopySource taking the clone itself, not its docs folder
CopySource_WholeClone(d) == d.files

\* The directory cpSync copies from
CopySource(d) == SubTree(d.files, "docs")

\* Lines 89-92: cpSync(tempDocsDir, TARGET_DOCS_DIR, { recursive: true }); a
\* copy that fails may have copied some of the files
Cp(p) ==
    /\ pc[p] = "cp"
    /\ LET d == tmp[tempDir[p]]
           from == CopySource(d)
       IN \/ /\ HasSubdir(d, "docs") /\ content
             /\ target' = [exists |-> TRUE, files |-> Overlay(target.files, from)]
             /\ Did(p, "cp", "ok")
             /\ Log(p, << <<"Successfully copied docs folder to ./content/docs">>,
                          <<"Final result - files in ./content/docs">> >>)
             /\ Goto(p, "listTarget")
             /\ UNCHANGED thrown
          \/ /\ \/ UNCHANGED target
                \/ /\ HasSubdir(d, "docs") /\ content
                   /\ \E some \in SUBSET from :
                         /\ some # from
                         /\ target' = [exists |-> TRUE,
                                        files |-> Overlay(target.files, some)]
             /\ Did(p, "cp", "fail")
             /\ Throw(p, "cpSync")
             /\ UNCHANGED out
    /\ UNCHANGED <<now, remote, content, tmp, tempDir, err, exitCode, seen>>

\* Lines 95-103: list the files of ./content/docs; a failure is caught on the spot
ListTarget(p) ==
    /\ pc[p] = "listTarget"
    /\ \/ /\ target.exists
          /\ Did(p, "listTarget", "ok")
          /\ Log(p, << <<"files", target.files>>,
                       <<"Total files", LineCount(target.files)>> >>)
       \/ /\ Did(p, "listTarget", "fail")
          /\ Log(p, << <<"Could not list files, but copy completed successfully">> >>)
    /\ Goto(p, "finally")
    /\ UNCHANGED <<now, remote, target, content, tmp, tempDir, thrown, err, exitCode, seen>>

\* Lines 109-111: the catch clause reports the error and calls process.exit(1),
\* which ends the process there: the finally clause below it does not run.
Catch(p) ==
    /\ pc[p] = "catch"
    /\ LogError(p, <<"Error during sparse clone", thrown[p]>>)
    /\ exitCode' = [exitCode EXCEPT ![p] = 1]
    /\ Goto(p, "exited")
    /\ Leave(p)
    /\ UNCHANGED <<now, remote, target, content, tmp, tempDir, thrown, out, trace>>

\* Finally without the removal: the temporary directory is left behind
Finally_NoCleanup(p) ==
    /\ pc[p] = "finally"
    /\ Goto(p, "resolved")
    /\ UNCHANGED <<now, remote, target, content, tmp, tempDir, thrown, out, err, exitCode,
                   trace, seen>>

\* Finally with the failure of the removal caught and dropped
Finally_SwallowsFailure(p) ==
    /\ pc[p] = "finally"
    /\ LET t == tempDir[p]
       IN \/ /\ ~tmp[t].exists
             /\ UNCHANGED <<tmp, out, trace>>
          \/ /\ tmp[t].exists
             /\ tmp' = [tmp EXCEPT ![t] = AbsentTmp]
             /\ Did(p, "cleanup", "ok")
             /\ Log(p, << <<"Cleaning up temporary directory">> >>)
          \/ /\ tmp[t].exists
             /\ \E left \in Leftovers(tmp[t].files) :
                   tmp' = [tmp EXCEPT ![t].files = left]
             /\ Did(p, "cleanup", "fail")
             /\ Log(p, << <<"Cleaning up temporary directory">> >>)
    /\ Goto(p, "resolved")
    /\ UNCHANGED <<now, remote, target, content, tempDir, thrown, err, exitCode, seen>>

\* Lines 112-118: the finally clause, reached when the try block completes
Finally(p) ==
    /\ pc[p] = "finally"
    /\ LET t == tempDir[p]
       IN \/ /\ ~tmp[t].exists
             /\ Goto(p, "resolved")
             /\ UNCHANGED <<tmp, thrown, out, trace>>
          \/ /\ tmp[t].exists
             /\ tmp' = [tmp EXCEPT ![t] = AbsentTmp]
             /\ Did(p, "cleanup", "ok")
             /\ Log(p, << <<"Cleaning up temporary directory">> >>)
             /\ Goto(p, "resolved")
             /\ UNCHANGED thrown
          \/ /\ tmp[t].exists
             /\ \E left \in Leftovers(tmp[t].files) :
                   tmp' = [tmp EXCEPT ![t].files = left]
             /\ Did(p, "cleanup", "fail")
             /\ Log(p, << <<"Cleaning up temporary directory">> >>)
             /\ thrown' = [thrown EXCEPT ![p] = "rmSync"]
             /\ Goto(p, "rejected")
    /\ UNCHANGED <<now, remote, target, content, tempDir, err, exitCode, seen>>

\* Lines 124-126: the promise resolved; the process then ends with status 0
Then(p) ==
    /\ pc[p] = "resolved"
    /\ Log(p, << <<"Optimized sparse clone completed successfully">> >>)
    /\ Goto(p, "exited")
    /\ Leave(p)
    /\ UNCHANGED <<now, remote, target, content, tmp, tempDir, thrown, err, exitCode, trace>>

\* TopCatch without process.exit(1): the error is reported, the status stays 0
TopCatch_NoExit(p) ==
    /\ pc[p] = "rejected"
    /\ LogError(p, <<"Script failed", thrown[p]>>)
    /\ Goto(p, "exited")
    /\ Leave(p)
    /\ UNCHANGED <<now, remote, target, content, tmp, tempDir, thrown, out, exitCode, trace>>

\* Lines 127-130: the promise rejected
TopCatch(p) ==
    /\ pc[p] = "rejected"
    /\ LogError(p, <<"Script failed", thrown[p]>>)
    /\ exitCode' = [exitCode EXCEPT ![p] = 1]
    /\ Goto(p, "exited")
    /\ Leave(p)
    /\ UNCHANGED <<now, remote, target, content, tmp, tempDir, thrown, out, trace>>

-----------------------------------------------------------------------------
\* No other invocation is in progress
Alone(p) == \A q \in Procs \ {p} : ~Running(q)

\* The script is started while no other invocation of it runs
StartAlone(p) == Alone(p) /\ Start(p)

Step(p) ==
    \/ RmTarget(p) \/ Clone(p) \/ Config(p) \/ SparseInit(p) \/ SparseSet(p)
    \/ Checkout(p) \/ ListCheckedOut(p) \/ CheckDocs(p) \/ Mkdir(p) \/ Cp(p)
    \/ ListTarget(p) \/ Catch(p) \/ Finally(p) \/ Then(p) \/ TopCatch(p)

\* Invocations one after the other (the single-writer use the script assumes)
Next == \E p \in Procs : StartAlone(p) \/ Step(p)

Spec == Init /\ [][Next]_vars

\* Invocations that may overlap
NextConc == \E p \in Procs : Start(p) \/ Step(p)

SpecConc == Init /\ [][NextConc]_vars

-----------------------------------------------------------------------------
\* Vocabulary of the properties

Exited(p) == pc[p] = "exited"

\* Invocation p made the call, with that outcome
DidCall(p, call, outcome) == trace[p][call].outcome = outcome

\* Invocation p made the call
Tried(p, call) == trace[p][call].outcome # "none"

\* The essential steps in their order; the two listings and the cleanup are not
\* among them
EssentialOrder ==
    <<"rmTarget", "clone", "config", "sparseInit", "sparseSet", "checkout",
      "checkDocs", "mkdir", "cp">>

Essential == { EssentialOrder[k] : k \in DOMAIN EssentialOrder }

EssentialFailed(p) == \E c \in Essential : DidCall(p, c, "fail")

\* Every essential step succeeded (the target deletion is skipped when there is
\* no target)
AllEssentialOk(p) ==
    /\ ~DidCall(p, "rmTarget", "fail")
    /\ \A c \in Essential \ {"rmTarget"} : DidCall(p, c, "ok")

\* A step after the target deletion and before the copy failed
FailedBeforeCopy(p) ==
    \E c \in {"clone", "config", "sparseInit", "sparseSet", "checkout", "checkDocs"} :
        DidCall(p, c, "fail")

Wrote(log, tag) == \E i \in DOMAIN log : log[i][1] = tag

\* The docs subtree of the remote, as ./content/docs should hold it
DocsOf(tree) == SubTree(tree, "docs")

Mirror == [exists |-> TRUE, files |-> DocsOf(remote)]

-----------------------------------------------------------------------------
\* C1: once the process of a run in which an essential step failed has exited,
\* the temporary directory that run created (its clone succeeded) does not exist.
C1_TempDirRemovedOnFailure ==
    \A p \in Procs :
        Exited(p) /\ EssentialFailed(p) /\ DidCall(p, "clone", "ok")
            => tempDir[p] \notin seen[p].temps

\* C2: when a run ends in success, whatever ./content/docs held before it, the
\* target exists, holds exactly the docs subtree of the remote, and the
\* temporary directory of the run does not exist.
C2_SuccessMirrorsDocs ==
    \A p \in Procs :
        Exited(p) /\ exitCode[p] = 0
            => /\ seen[p].after = Mirror
               /\ tempDir[p] \notin seen[p].temps

\* a successful run that found ./content/docs holding other content
C2_Witness ==
    \E p \in Procs :
        /\ Exited(p) /\ exitCode[p] = 0
        /\ seen[p].before.exists
        /\ seen[p].before.files \ DocsOf(remote) # {}
        /\ seen[p].after = Mirror

\* C3: when clone, sparse-checkout configuration and checkout succeed but the
\* clone has no docs folder, the run reports 'Docs folder not found', exits
\* with status 1, copies nothing and leaves ./content/docs absent.
C3_MissingDocsFails ==
    \A p \in Procs :
        /\ Exited(p)
        /\ \A c \in {"clone", "config", "sparseInit", "sparseSet", "checkout"} :
              DidCall(p, c, "ok")
        /\ DocsOf(remote) = {}
        => /\ exitCode[p] = 1
           /\ err[p] = << <<"Error during sparse clone",
                           "Docs folder not found in cloned repository">> >>
           /\ ~Tried(p, "mkdir") /\ ~Tried(p, "cp")
           /\ seen[p].after = AbsentDir

\* a run against the remote without docs that found a populated ./content/docs
C3_Witness ==
    \E p \in Procs :
        /\ Exited(p)
        /\ DidCall(p, "checkout", "ok")
        /\ DocsOf(remote) = {}
        /\ seen[p].before.files # {}
        /\ seen[p].after = AbsentDir

\* C4 as stated: the exit status is 0 exactly when every essential step
\* succeeded; a failing run writes a diagnostic to standard error and never the
\* 'completed successfully' line.
C4_ExitStatusMatchesEssentialSteps ==
    \A p \in Procs :
        Exited(p) =>
            /\ exitCode[p] = 0 <=> AllEssentialOk(p)
            /\ exitCode[p] # 0 =>
                  /\ err[p] # <<>>
                  /\ ~Wrote(out[p], "Optimized sparse clone completed successfully")

\* C4 as amended: the exit status is 0 exactly when every essential step
\* succeeded and the removal of the temporary directory did not fail.
C4_ExitStatusMatchesOutcome ==
    \A p \in Procs :
        Exited(p) =>
            /\ exitCode[p] \in {0, 1}
            /\ exitCode[p] = 0 <=> AllEssentialOk(p) /\ ~DidCall(p, "cleanup", "fail")
            /\ exitCode[p] # 0 =>
                  /\ err[p] # <<>>
                  /\ ~Wrote(out[p], "Optimized sparse clone completed successfully")

\* a run whose essential steps all succeeded and whose cleanup failed
C4_Witness ==
    \E p \in Procs :
        /\ Exited(p)
        /\ AllEssentialOk(p)
        /\ DidCall(p, "cleanup", "fail")
        /\ exitCode[p] = 1

\* C5: the temporary directory of a run does not exist when the run starts, and
\* two invocations in progress at the same time have different temporary
\* directories.
C5_TempDirFreshAndExclusive ==
    \A p \in Procs :
        pc[p] # "idle" =>
            /\ ~seen[p].tempExisted
            /\ \A q \in Procs \ {p} :
                  Running(p) /\ Running(q) => tempDir[p] # tempDir[q]

\* C6: two successful runs one after the other against the unchanged remote
\* leave ./content/docs with the same contents, and when each of them exits no
\* temporary directory of either run exists.
C6_Idempotent ==
    \A p, q \in Procs :
        q = p + 1 /\ Exited(p) /\ exitCode[p] = 0 /\ Exited(q) /\ exitCode[q] = 0
            => /\ seen[p].after.exists
               /\ seen[q].after = seen[p].after
               /\ tempDir[p] \notin seen[p].temps
               /\ {tempDir[p], tempDir[q]} \cap seen[q].temps = {}

\* two successful runs in succession, the first of which replaced other content
C6_Witness ==
    \E p, q \in Procs :
        /\ q = p + 1 /\ Exited(p) /\ exitCode[p] = 0 /\ Exited(q) /\ exitCode[q] = 0
        /\ seen[p].before.files # {}
        /\ seen[p].before # seen[p].after
        /\ seen[q].before = seen[p].after
        /\ seen[q].after = seen[p].after

\* C7: a listing that fails (after checkout, after the copy) changes nothing:
\* the step after it still runs, no error is reported for it, and the exit
\* status is the one the other steps decide.
C7_ListingFailureIsHarmless ==
    \A p \in Procs :
        /\ DidCall(p, "listCheckedOut", "fail") /\ Exited(p) => Tried(p, "checkDocs")
        /\ DidCall(p, "listTarget", "fail") /\ Exited(p) =>
              /\ seen[p].after = Mirror
              /\ exitCode[p] = 0 <=> ~DidCall(p, "cleanup", "fail")
        /\ Exited(p) /\ ~EssentialFailed(p) /\ ~DidCall(p, "cleanup", "fail") =>
              /\ exitCode[p] = 0
              /\ err[p] = <<>>
              /\ seen[p].after = Mirror
              /\ tempDir[p] \notin seen[p].temps

\* a run that ended in success although both listings failed
C7_Witness ==
    \E p \in Procs :
        /\ Exited(p)
        /\ DidCall(p, "listCheckedOut", "fail")
        /\ DidCall(p, "listTarget", "fail")
        /\ exitCode[p] = 0
        /\ seen[p].after = Mirror

\* C8: the essential steps of a run happen in the fixed order, and none starts
\* unless every essential step before it succeeded (the deletion of the target
\* is skipped when there is no target).
C8_FixedOrderAbortOnFailure ==
    \A p \in Procs :
        LET made == trace[p]
        IN \A j \in 2..Len(EssentialOrder) :
               made[EssentialOrder[j]].outcome # "none" =>
                   \A i \in 1..(j - 1) :
                       LET before == made[EssentialOrder[i]]
                       IN i > 1 \/ before.outcome # "none" =>
                              /\ before.outcome = "ok"
                              /\ before.at < made[EssentialOrder[j]].at

\* a run whose checkout failed has exited without creating or copying anything
C8_Witness ==
    \E p \in Procs :
        /\ Exited(p)
        /\ DidCall(p, "rmTarget", "ok")
        /\ DidCall(p, "checkout", "fail")
        /\ ~Tried(p, "checkDocs") /\ ~Tried(p, "mkdir") /\ ~Tried(p, "cp")

\* C9: when a run deleted an existing ./content/docs and a later step before
\* the copy failed, the target is absent when the process exits, and the exit
\* status is 1.
C9_FailureLeavesTargetAbsent ==
    \A p \in Procs :
        /\ Exited(p)
        /\ seen[p].before.exists
        /\ DidCall(p, "rmTarget", "ok")
        /\ FailedBeforeCopy(p)
        => /\ seen[p].after = AbsentDir
           /\ exitCode[p] = 1

\* a run that found content in ./content/docs and failed at its clone
C9_Witness ==
    \E p \in Procs :
        /\ Exited(p)
        /\ seen[p].before.files # {}
        /\ DidCall(p, "rmTarget", "ok")
        /\ DidCall(p, "clone", "fail")
        /\ seen[p].after = AbsentDir

\* C10: when every essential step succeeded and the removal of the temporary
\* directory fails, the catch clause of sparseCloneDocs does not see the error:
\* the entry point reports it and exits with status 1, with ./content/docs
\* fully populated.
C10_CleanupFailureSurfaces ==
    \A p \in Procs :
        Exited(p) /\ AllEssentialOk(p) /\ DidCall(p, "cleanup", "fail")
            => /\ exitCode[p] = 1
               /\ err[p] = << <<"Script failed", "rmSync">> >>
               /\ ~Wrote(out[p], "Optimized sparse clone completed successfully")
               /\ seen[p].after = Mirror

\* a run whose cleanup failed, leaving its temporary directory behind
C10_Witness ==
    \E p \in Procs :
        /\ Exited(p)
        /\ DidCall(p, "cp", "ok")
        /\ DidCall(p, "cleanup", "fail")
        /\ tempDir[p] \in seen[p].temps
        /\ seen[p].after = Mirror

====
